---- MODULE Spec2Model ----
(***************************************************************************)
(* A model of the face replacement pipeline of app/face_replacer.py, with  *)
(* the parts of app/face_detector.py, app/gif_processor.py and app/main.py *)
(* that it calls or that consume its results.                              *)
(*                                                                         *)
(* One replacer object (FaceReplacer or AdvancedFaceReplacer) is modelled  *)
(* together with the single caller that drives it: set_source_face, one    *)
(* process_gif_frames call at a time (its loop taken one iteration at a    *)
(* time), and the sink that receives the list it returns.                  *)
(*                                                                         *)
(* Images are symbolic: a frame is its index in the input list, its shape  *)
(* and the list of composites ("layers") applied to it, in order.  The     *)
(* external calls (the detector, cv2.seamlessClone, ffmpeg) are oracles    *)
(* whose answers are chosen nondeterministically.  _simple_blend is also   *)
(* modelled pixel by pixel, in the second half of the module.              *)
(***************************************************************************)
EXTENDS Integers, Sequences, FiniteSets, TLC

VARIABLES
    variant,              \* "basic" (FaceReplacer) or "advanced" (AdvancedFaceReplacer)
    source_face,          \* self.source_face: None or the extracted region
    source_landmarks,     \* self.source_landmarks
    last_face_locations,  \* AdvancedFaceReplacer.last_face_locations
    pc,                   \* position of the caller / of process_gif_frames
    frames,               \* the frames argument of the running call
    progress_callback,    \* whether a progress callback was supplied
    processed_frames,     \* the local list processed_frames
    progress,             \* the (current, total) pairs the callback received
    detect_calls,         \* detector calls made by the running call
    detections,           \* the detector's answers in the running call
    seen,                 \* most recent non-empty detector answer (history)
    error,                \* what the running call raised, if anything
    error_box,            \* the box whose compositing raised
    frame_faces,          \* the boxes chosen for the frame handled last
    frame_paths,          \* the blend that composited each of them
    sink,                 \* outcome of the sink fed with the returned list
    i,                    \* the loop index of process_gif_frames
    set_result,           \* outcome of the most recent set_source_face
    src_image,            \* argument of the most recent set_source_face
    src_faces,            \* the detector's answer inside it
    blend,                \* the pixel-level compositing call (second half)
    frame_reads,          \* what each blend of the frame handled last read
    extract,              \* the extract_face call checked on its own
    jobs                  \* main.py: the replace_faces requests and their files

vars == <<variant, source_face, source_landmarks, last_face_locations, pc,
          frames, progress_callback, processed_frames, progress,
          detect_calls, detections, seen, error, error_box, frame_faces,
                   frame_paths, frame_reads,
          sink, i,
          set_result, src_image, src_faces, blend, extract, jobs>>

replacerVars == <<variant, source_face, source_landmarks, last_face_locations,
                  pc, frames, progress_callback, processed_frames, progress,
                  detect_calls, detections, seen, error, error_box, frame_faces,
                   frame_paths, frame_reads,
          sink, i,
                  set_result, src_image, src_faces>>

-----------------------------------------------------------------------------
(* Bounds of the model *)

MaxFrames == 3
MaxFaces == 2

(* Python's None *)
None == [none |-> TRUE]

(* Frame shapes, frame.shape[:2] *)
Large == [h |-> 6, w |-> 6]
Small == [h |-> 4, w |-> 4]
Shapes == {Large, Small}

(* A box is (top, right, bottom, left), as face_recognition returns it. *)
Top(b) == b[1]
Right(b) == b[2]
Bottom(b) == b[3]
Left(b) == b[4]

BoxInside == <<2, 4, 4, 2>>
BoxCorner == <<4, 6, 6, 4>>
BoxOdd == <<0, 3, 3, 0>>
(* What the detector may find on a frame, and on a reference image *)
FrameBoxes == {BoxInside, BoxCorner}
SourceBoxes == {BoxInside, BoxCorner, BoxOdd}

Min(a, b) == IF a < b THEN a ELSE b
Max(a, b) == IF a > b THEN a ELSE b

InFrame(b, shape) ==
    /\ 0 <= Top(b) /\ Top(b) < Bottom(b) /\ Bottom(b) <= shape.h
    /\ 0 <= Left(b) /\ Left(b) < Right(b) /\ Right(b) <= shape.w

(* Sequences of distinct elements of S, of length at most n *)
DistinctSeqs(S, n) ==
    UNION {{s \in [1..k -> S] : \A a, c \in 1..k : a # c => s[a] # s[c]} : k \in 0..n}

(* detect_faces: the oracle returns boxes trimmed to the image, or raises. *)
DetectResults(boxes, shape) ==
    {[ok |-> TRUE, faces |-> s] :
        s \in DistinctSeqs({b \in boxes : InFrame(b, shape)}, MaxFaces)}
    \cup {[ok |-> FALSE, faces |-> <<>>]}

-----------------------------------------------------------------------------
(* face_detector.py *)

ExtractFaceUnclamped(image, face_location, padding10) ==
    LET top == Top(face_location)
        right == Right(face_location)
        bottom == Bottom(face_location)
        left == Left(face_location)
        pad_h == ((bottom - top) * padding10) \div 10
        pad_w == ((right - left) * padding10) \div 10
    IN  [image |-> image,
         face |-> [h |-> bottom - top + 2 * pad_h, w |-> right - left + 2 * pad_w],
         loc |-> <<top - pad_h, right + pad_w, bottom + pad_h, left - pad_w>>]

(* FaceDetector.extract_face, with the padding ratio given in tenths:       *)
(* int(face_height * padding) is the floor of the exact product.  The face *)
(* image is the slice image[new_top:new_bottom, new_left:new_right], which *)
(* numpy clips to the array; its shape is kept, with the image it is from. *)
ExtractFace(image, face_location, padding10) ==
    LET top == Top(face_location)
        right == Right(face_location)
        bottom == Bottom(face_location)
        left == Left(face_location)
        face_height == bottom - top
        face_width == right - left
        pad_h == (face_height * padding10) \div 10
        pad_w == (face_width * padding10) \div 10
        new_top == Max(0, top - pad_h)
        new_bottom == Min(image.h, bottom + pad_h)
        new_left == Max(0, left - pad_w)
        new_right == Min(image.w, right + pad_w)
        face_image == [h |-> Max(0, Min(new_bottom, image.h) - Min(new_top, image.h)),
                       w |-> Max(0, Min(new_right, image.w) - Min(new_left, image.w))]
    IN  [image |-> image, face |-> face_image,
         loc |-> <<new_top, new_right, new_bottom, new_left>>]

-----------------------------------------------------------------------------
(* face_replacer.py: FaceReplacer.set_source_face *)

(* The key of max(): (f[2] - f[0]) * (f[1] - f[3]) *)
FaceKey(f) == (f[3] - f[1]) * (f[2] - f[4])

(* Python's max(faces, key=...): the first element whose key is maximal *)
RECURSIVE MaxFrom(_, _, _)
MaxFrom(faces, k, best) ==
    IF k > Len(faces) THEN best
    ELSE MaxFrom(faces, k + 1,
                 IF FaceKey(faces[k]) > FaceKey(best) THEN faces[k] ELSE best)

RECURSIVE LastMaxFrom(_, _, _)
LastMaxFrom(faces, k, best) ==
    IF k > Len(faces) THEN best
    ELSE LastMaxFrom(faces, k + 1,
                     IF FaceKey(faces[k]) >= FaceKey(best) THEN faces[k] ELSE best)

LargestFaceLastWins(faces) == LastMaxFrom(faces, 2, faces[1])

LargestFace(faces) == MaxFrom(faces, 2, faces[1])

(* No call is running and the lists of an earlier call are gone. *)
LocalsCleared ==
    /\ frames' = <<>>
    /\ progress_callback' = FALSE
    /\ processed_frames' = <<>>
    /\ progress' = <<>>
    /\ detect_calls' = 0
    /\ detections' = <<>>
    /\ error' = "none"
    /\ error_box' = <<>>
    /\ frame_faces' = <<>>
    /\ frame_paths' = <<>>
    /\ frame_reads' = <<>>
    /\ i' = 0

CallCleared == LocalsCleared /\ sink' = "none"

SetSourceFaceResetsOnFailure ==
    /\ pc = "idle"
    /\ \E image \in {Large} :
       \E d \in DetectResults(SourceBoxes, image) :
       \E has_landmarks \in BOOLEAN :
          /\ src_image' = image
          /\ src_faces' = d.faces
          /\ IF ~d.ok
             THEN /\ set_result' = "raised"
                  /\ UNCHANGED <<source_face, source_landmarks>>
             ELSE IF d.faces = <<>>
             THEN /\ set_result' = "False"
                  /\ source_face' = None
                  /\ source_landmarks' = None
             ELSE LET largest_face == LargestFace(d.faces)
                  IN  /\ source_face' = ExtractFace(image, largest_face, 4)
                      /\ source_landmarks' =
                             IF has_landmarks THEN [box |-> largest_face] ELSE None
                      /\ set_result' = "True"
    /\ pc' = "idle"
    /\ CallCleared
    /\ UNCHANGED <<variant, last_face_locations, seen, blend, extract, jobs>>

(* FaceReplacer.set_source_face, called between process_gif_frames calls   *)
SetSourceFace ==
    /\ pc = "idle"
    /\ \E image \in {Large} :
       \E d \in DetectResults(SourceBoxes, image) :
       \E has_landmarks \in BOOLEAN :
          /\ src_image' = image
          /\ src_faces' = d.faces
          /\ IF ~d.ok
             THEN /\ set_result' = "raised"
                  /\ UNCHANGED <<source_face, source_landmarks>>
             ELSE IF d.faces = <<>>
             THEN /\ set_result' = "False"
                  /\ UNCHANGED <<source_face, source_landmarks>>
             ELSE LET largest_face == LargestFace(d.faces)
                  IN  /\ source_face' = ExtractFace(image, largest_face, 4)
                      /\ source_landmarks' =
                             IF has_landmarks THEN [box |-> largest_face] ELSE None
                      /\ set_result' = "True"
    /\ pc' = "idle"
    /\ CallCleared
    /\ UNCHANGED <<variant, last_face_locations, seen, blend, extract, jobs>>

-----------------------------------------------------------------------------
(* face_replacer.py: compositing one box *)

(* An input frame of the list, before anything is composited on it *)
InputFrame(k, shape) == [src |-> k, h |-> shape.h, w |-> shape.w, layers |-> <<>>]

(* The frame with the source face composited at one more box, on top of  *)
(* what it already holds.  Which blend produced it is the "path" that    *)
(* the operators below return next to the frame.                         *)
Composited(frame, face_location) ==
    [frame EXCEPT !.layers = Append(@, face_location)]

(* The bounds check of _replace_single_face: TRUE when the face fits and *)
(* cv2.seamlessClone is tried.                                           *)
FitsForClone(frame, face_location) ==
    LET face_height == Bottom(face_location) - Top(face_location)
        face_width == Right(face_location) - Left(face_location)
        cx == Left(face_location) + face_width \div 2
        cy == Top(face_location) + face_height \div 2
    IN  ~ \/ cx < face_width \div 2
          \/ cx >= frame.w - face_width \div 2
          \/ cy < face_height \div 2
          \/ cy >= frame.h - face_height \div 2

(* FaceReplacer._replace_single_face.  clone_ok is the answer of          *)
(* cv2.seamlessClone: TRUE when it returns, FALSE when it raises cv2.error *)
ReplaceSingleFace(sf, frame, face_location, clone_ok) ==
    IF sf = None THEN [raised |-> FALSE, frame |-> frame, path |-> "none"]
    ELSE IF ~FitsForClone(frame, face_location)
    THEN [raised |-> FALSE, frame |-> Composited(frame, face_location), path |-> "alpha"]
    ELSE IF clone_ok
    THEN [raised |-> FALSE, frame |-> Composited(frame, face_location), path |-> "gradient"]
    ELSE [raised |-> FALSE, frame |-> Composited(frame, face_location), path |-> "alpha"]

(* frame[top:bottom, left:right] for non-negative bounds: numpy clips the *)
(* slice to the array, so the region may be smaller than the box or empty *)
TargetRegion(frame, face_location) ==
    [h |-> Max(0, Min(Bottom(face_location), frame.h) - Min(Top(face_location), frame.h)),
     w |-> Max(0, Min(Right(face_location), frame.w) - Min(Left(face_location), frame.w))]

(* AdvancedFaceReplacer._replace_with_color_match.  _match_histograms is  *)
(* called outside the try block, and cv2.cvtColor raises cv2.error on an  *)
(* empty target region.                                                   *)
ReplaceWithColorMatch(sf, frame, face_location, clone_ok) ==
    LET target_face == TargetRegion(frame, face_location)
    IN  IF sf = None THEN [raised |-> FALSE, frame |-> frame, path |-> "none"]
        ELSE IF target_face.h = 0 \/ target_face.w = 0
        THEN [raised |-> TRUE, frame |-> frame, path |-> "none"]
        ELSE IF clone_ok
        THEN [raised |-> FALSE, frame |-> Composited(frame, face_location),
              path |-> "gradient"]
        ELSE [raised |-> FALSE, frame |-> Composited(frame, face_location),
              path |-> "alpha"]

RECURSIVE ReplaceOnInputFrom(_, _, _, _, _, _, _, _)
ReplaceOnInputFrom(adv, sf, input, result, faces, oks, k, taken) ==
    IF k > Len(faces)
    THEN [status |-> "ok", frame |-> result, box |-> <<>>, paths |-> taken,
          reads |-> <<>>]
    ELSE LET r == IF adv
                  THEN ReplaceWithColorMatch(sf, input, faces[k], oks[k])
                  ELSE ReplaceSingleFace(sf, input, faces[k], oks[k])
         IN  IF r.raised
             THEN [status |-> "cv2.error", frame |-> result, box |-> faces[k],
                   paths |-> taken, reads |-> <<input.layers>>]
             ELSE LET rest == ReplaceOnInputFrom(adv, sf, input, r.frame, faces,
                                                 oks, k + 1, Append(taken, r.path))
                  IN  [rest EXCEPT !.reads = <<input.layers>> \o @]

ReplaceEachOnInput(adv, sf, result, faces, oks, k, taken) ==
    ReplaceOnInputFrom(adv, sf, result, result, faces, oks, k, taken)

(* for face_location in faces: result = <replace one>(result, ...).  The  *)
(* field reads lists, for each box gone through, the composites that the  *)
(* frame handed to its blend already held.                                *)
RECURSIVE ReplaceEach(_, _, _, _, _, _, _)
ReplaceEach(adv, sf, result, faces, oks, k, taken) ==
    IF k > Len(faces)
    THEN [status |-> "ok", frame |-> result, box |-> <<>>, paths |-> taken,
          reads |-> <<>>]
    ELSE LET r == IF adv
                  THEN ReplaceWithColorMatch(sf, result, faces[k], oks[k])
                  ELSE ReplaceSingleFace(sf, result, faces[k], oks[k])
         IN  IF r.raised
             THEN [status |-> "cv2.error", frame |-> result, box |-> faces[k],
                   paths |-> taken, reads |-> <<result.layers>>]
             ELSE LET rest == ReplaceEach(adv, sf, r.frame, faces, oks, k + 1,
                                          Append(taken, r.path))
                  IN  [rest EXCEPT !.reads = <<result.layers>> \o @]

-----------------------------------------------------------------------------
(* face_replacer.py: replace_faces_in_frame, both variants *)

SourceNeverMissing(sf) == FALSE

(* if self.source_face is None: return frame *)
SourceMissing(sf) == sf = None

SelectFacesNoCoasting(faces, last) == [faces |-> faces, last |-> faces]

SelectFacesKeepsFirst(faces, last) ==
    IF last # <<>>
    THEN [faces |-> IF faces = <<>> THEN last ELSE faces, last |-> last]
    ELSE [faces |-> faces, last |-> faces]

(* The temporal smoothing of AdvancedFaceReplacer.replace_faces_in_frame: *)
(* the boxes to composite and the new value of last_face_locations.       *)
SelectFaces(faces, last) ==
    IF faces = <<>> /\ last # <<>>
    THEN [faces |-> last, last |-> last]
    ELSE [faces |-> faces, last |-> faces]

(* FaceReplacer.replace_faces_in_frame.  d is the detector's answer, oks  *)
(* the answers of cv2.seamlessClone for the boxes, in order.              *)
BasicReplaceFacesInFrame(sf, last, frame, d, oks) ==
    IF SourceMissing(sf)
    THEN [status |-> "ok", frame |-> frame, box |-> <<>>, paths |-> <<>>,
          reads |-> <<>>, faces |-> <<>>, last |-> last, called |-> FALSE]
    ELSE IF ~d.ok
    THEN [status |-> "detector", frame |-> frame, box |-> <<>>, paths |-> <<>>,
          reads |-> <<>>, faces |-> <<>>, last |-> last, called |-> TRUE]
    ELSE LET r == ReplaceEach(FALSE, sf, frame, d.faces, oks, 1, <<>>)
         IN  [status |-> r.status, frame |-> r.frame, box |-> r.box,
              paths |-> r.paths, reads |-> r.reads, faces |-> d.faces,
              last |-> last, called |-> TRUE]

(* AdvancedFaceReplacer.replace_faces_in_frame *)
AdvancedReplaceFacesInFrame(sf, last, frame, d, oks) ==
    IF SourceMissing(sf)
    THEN [status |-> "ok", frame |-> frame, box |-> <<>>, paths |-> <<>>,
          reads |-> <<>>, faces |-> <<>>, last |-> last, called |-> FALSE]
    ELSE IF ~d.ok
    THEN [status |-> "detector", frame |-> frame, box |-> <<>>, paths |-> <<>>,
          reads |-> <<>>, faces |-> <<>>, last |-> last, called |-> TRUE]
    ELSE LET sel == SelectFaces(d.faces, last)
             r == ReplaceEach(TRUE, sf, frame, sel.faces, oks, 1, <<>>)
         IN  [status |-> r.status, frame |-> r.frame, box |-> r.box,
              paths |-> r.paths, reads |-> r.reads, faces |-> sel.faces,
              last |-> sel.last, called |-> TRUE]

-----------------------------------------------------------------------------
(* face_replacer.py: FaceReplacer.process_gif_frames, inherited by the     *)
(* advanced variant                                                        *)

(* How many boxes replace_faces_in_frame goes through, at most one call  *)
(* of cv2.seamlessClone each                                             *)
CloneCalls(v, sf, last, d) ==
    IF SourceMissing(sf) \/ ~d.ok THEN 0
    ELSE IF v = "advanced" THEN Len(SelectFaces(d.faces, last).faces)
    ELSE Len(d.faces)

FrameLists == UNION {[1..n -> Shapes] : n \in 0..MaxFrames}

PrependProcessed(list, processed) == <<processed>> \o list

(* processed_frames.append(processed) *)
AppendProcessed(list, processed) == Append(list, processed)

ProgressArgsFromZero(index, total) == <<index, total>>

(* progress_callback(i + 1, len(frames)) *)
ProgressArgs(index, total) == <<index + 1, total>>

(* The call: processed_frames = [] and the loop is entered. *)
ProcessGifFrames ==
    /\ pc = "idle"
    /\ \E fs \in FrameLists :
       \E cb \in BOOLEAN :
          /\ frames' = fs
          /\ progress_callback' = cb
    /\ processed_frames' = <<>>
    /\ progress' = <<>>
    /\ detect_calls' = 0
    /\ detections' = <<>>
    /\ error' = "none"
    /\ error_box' = <<>>
    /\ frame_faces' = <<>>
    /\ frame_paths' = <<>>
    /\ frame_reads' = <<>>
    /\ sink' = "none"
    /\ i' = 0
    /\ set_result' = "none"
    /\ src_image' = None
    /\ src_faces' = <<>>
    /\ pc' = "loop"
    /\ UNCHANGED <<variant, source_face, source_landmarks, last_face_locations,
                   seen, blend, extract, jobs>>

(* One iteration up to the append: replace_faces_in_frame on frames[i]. *)
ProcessFrame ==
    /\ pc = "loop"
    /\ i < Len(frames)
    /\ \E d \in DetectResults(FrameBoxes, frames[i + 1]) :
       \E oks \in [1..CloneCalls(variant, source_face, last_face_locations, d)
                       -> BOOLEAN] :
          LET frame == InputFrame(i + 1, frames[i + 1])
              r == IF variant = "advanced"
                   THEN AdvancedReplaceFacesInFrame(source_face, last_face_locations,
                                                    frame, d, oks)
                   ELSE BasicReplaceFacesInFrame(source_face, last_face_locations,
                                                 frame, d, oks)
              answered == r.called /\ d.ok
          IN  /\ last_face_locations' = r.last
              /\ detect_calls' = IF r.called THEN detect_calls + 1 ELSE detect_calls
              /\ detections' = IF answered THEN Append(detections, d.faces)
                               ELSE detections
              /\ seen' = IF answered /\ d.faces # <<>> /\ variant = "advanced"
                         THEN d.faces ELSE seen
              /\ frame_faces' = r.faces
              /\ frame_paths' = r.paths
              /\ frame_reads' = r.reads
              /\ IF r.status = "ok"
                 THEN /\ processed_frames' = AppendProcessed(processed_frames, r.frame)
                      /\ IF progress_callback
                         THEN pc' = "callback" /\ i' = i
                         ELSE pc' = "loop" /\ i' = i + 1
                      /\ UNCHANGED <<error, error_box>>
                 ELSE /\ pc' = "raised"
                      /\ error' = r.status
                      /\ error_box' = r.box
                      /\ UNCHANGED <<processed_frames, i>>
    /\ UNCHANGED <<variant, source_face, source_landmarks, frames,
                   progress_callback, progress, sink, set_result, src_image,
                   src_faces, blend, extract, jobs>>

(* The rest of the iteration: the progress callback. *)
ReportProgress ==
    /\ pc = "callback"
    /\ progress' = Append(progress, ProgressArgs(i, Len(frames)))
    /\ i' = i + 1
    /\ pc' = "loop"
    /\ UNCHANGED <<variant, source_face, source_landmarks, last_face_locations,
                   frames, progress_callback, processed_frames, detect_calls,
                   detections, seen, error, error_box, frame_faces,
                   frame_paths, frame_reads, sink,
                   set_result,
                   src_image, src_faces, blend, extract, jobs>>

(* return processed_frames *)
ReturnProcessed ==
    /\ pc = "loop"
    /\ i >= Len(frames)
    /\ pc' = "returned"
    /\ UNCHANGED <<variant, source_face, source_landmarks, last_face_locations,
                   frames, progress_callback, processed_frames, progress,
                   detect_calls, detections, seen, error, error_box, frame_faces,
                   frame_paths, frame_reads,
          sink, i,
                   set_result, src_image, src_faces, blend, extract, jobs>>

-----------------------------------------------------------------------------
(* gif_processor.py: the sinks that main.py feeds the returned list to *)

EmptyListAccepted(list) == FALSE

(* if not frame_paths / if not frames: raise ValueError("No frames provided") *)
NoFramesProvided(list) == list = <<>>

(* GifProcessor.assemble_gif on the frames written by numpy_to_frames, one *)
(* path per frame; ffmpeg either assembles the GIF or fails.  It is the    *)
(* caller's last use of the returned list.                                 *)
AssembleGif ==
    /\ pc = "returned"
    /\ \E ffmpeg_ok \in BOOLEAN :
          sink' = IF NoFramesProvided(processed_frames) THEN "ValueError"
                  ELSE IF ffmpeg_ok THEN "written" ELSE "RuntimeError"
    /\ pc' = "idle"
    /\ LocalsCleared
    /\ UNCHANGED <<variant, source_face, source_landmarks, last_face_locations,
                   seen, set_result, src_image, src_faces, blend, extract, jobs>>

(* save_gif_pillow, likewise *)
SaveGifPillow ==
    /\ pc = "returned"
    /\ sink' = IF NoFramesProvided(processed_frames) THEN "ValueError" ELSE "written"
    /\ pc' = "idle"
    /\ LocalsCleared
    /\ UNCHANGED <<variant, source_face, source_landmarks, last_face_locations,
                   seen, set_result, src_image, src_faces, blend, extract, jobs>>

-----------------------------------------------------------------------------
(* main.py: the caller is done with the call, by its return or by its     *)
(* exception handlers; the lists of the call are gone, the replacer stays. *)
FinishCall ==
    /\ pc \in {"returned", "raised"}
    /\ pc' = "idle"
    /\ CallCleared
    /\ UNCHANGED <<variant, source_face, source_landmarks, last_face_locations,
                   seen, set_result, src_image, src_faces, blend, extract, jobs>>

-----------------------------------------------------------------------------
(* The replacer and its caller *)

BlendOff == [pc |-> "off"]
ExtractOff == [pc |-> "off"]
JobsOff == <<>>

(* FaceReplacer.__init__ / AdvancedFaceReplacer.__init__ *)
Init ==
    /\ variant \in {"basic", "advanced"}
    /\ source_face = None
    /\ source_landmarks = None
    /\ last_face_locations = <<>>
    /\ pc = "idle"
    /\ frames = <<>>
    /\ progress_callback = FALSE
    /\ processed_frames = <<>>
    /\ progress = <<>>
    /\ detect_calls = 0
    /\ detections = <<>>
    /\ seen = <<>>
    /\ error = "none"
    /\ error_box = <<>>
    /\ frame_faces = <<>>
    /\ frame_paths = <<>>
    /\ frame_reads = <<>>
    /\ sink = "none"
    /\ i = 0
    /\ set_result = "none"
    /\ src_image = None
    /\ src_faces = <<>>
    /\ blend = BlendOff
    /\ extract = ExtractOff
    /\ jobs = JobsOff

Next ==
    \/ SetSourceFace
    \/ ProcessGifFrames
    \/ ProcessFrame
    \/ ReportProgress
    \/ ReturnProcessed
    \/ AssembleGif
    \/ SaveGifPillow
    \/ FinishCall

Spec == Init /\ [][Next]_vars

-----------------------------------------------------------------------------
(* Properties of the replacer *)

InCall == pc \in {"loop", "callback", "returned", "raised"}

(* The index, from 1, of the frame that replace_faces_in_frame handled last *)
HandledIndex == IF pc \in {"callback", "raised"} THEN i + 1 ELSE i

(* A step in which the detector answered for a frame *)
DetectorAnswered == Len(detections') = Len(detections) + 1

(* C1: with a source face set, the advanced variant composites on a frame  *)
(* the frame's own detections when there are any, otherwise the boxes of   *)
(* the most recent non-empty detection, verbatim, and when there is none   *)
(* either it composites nothing and the output frame is the input frame.   *)
C1_TemporalFallback ==
    [][(variant = "advanced" /\ DetectorAnswered) =>
          LET det == detections'[Len(detections')]
              input == InputFrame(i + 1, frames[i + 1])
          IN  /\ frame_faces' = IF det # <<>> THEN det ELSE seen
              /\ error' = "none" =>
                    /\ Len(processed_frames') = Len(processed_frames) + 1
                    /\ processed_frames'[Len(processed_frames')] =
                          [input EXCEPT !.layers = frame_faces']
                    /\ (det = <<>> /\ seen = <<>>) =>
                          processed_frames'[Len(processed_frames')] = input]_vars

(* One box, then nothing, then another box: the second frame carries the   *)
(* first frame's box and the third its own.                                *)
C1_Witness ==
    /\ variant = "advanced"
    /\ detections = <<<<BoxInside>>, <<>>, <<BoxCorner>>>>
    /\ Len(processed_frames) = 3
    /\ processed_frames[2].layers = <<BoxInside>>
    /\ processed_frames[3].layers = <<BoxCorner>>

IsPrefix(s, t) == Len(s) <= Len(t) /\ \A k \in 1..Len(s) : s[k] = t[k]

(* C2: process_gif_frames returns one frame per input frame, in input      *)
(* order; an output, once appended, is never touched again, so it cannot   *)
(* depend on a later input.                                                *)
C2_CountAndOrder ==
    /\ [](InCall =>
            /\ Len(processed_frames) <= Len(frames)
            /\ \A k \in 1..Len(processed_frames) :
                  /\ processed_frames[k].src = k
                  /\ processed_frames[k].h = frames[k].h
                  /\ processed_frames[k].w = frames[k].w
            /\ pc = "returned" => Len(processed_frames) = Len(frames))
    /\ [][(InCall /\ pc' # "idle") =>
            /\ frames' = frames
            /\ IsPrefix(processed_frames, processed_frames')
            /\ Len(processed_frames') <= Len(processed_frames) + 1]_vars

C2_Witness ==
    /\ pc = "returned"
    /\ Len(frames) = 3
    /\ Len(processed_frames) = 3
    /\ processed_frames[1].layers # <<>>
    /\ processed_frames[3].layers = <<>>

(* C3, as stated: a call with a callback that returns has reported (k, n)  *)
(* for k = 1..n and (n, n) exactly once.                                   *)
C3_Original ==
    (progress_callback /\ pc = "returned") =>
        /\ Len(progress) = Len(frames)
        /\ \A k \in 1..Len(progress) : progress[k] = <<k, Len(frames)>>
        /\ Cardinality({k \in 1..Len(progress) :
                           progress[k] = <<Len(frames), Len(frames)>>}) = 1

(* C3, amended: the k-th invocation carries (k, n) and falls between the   *)
(* append of frame k-1's result and the processing of frame k; a call that *)
(* returns has made n invocations, so for n >= 1 the last one, and no      *)
(* other, is (n, n), and for n = 0 there is none.                          *)
C3_ProgressReports ==
    InCall =>
        /\ ~progress_callback => progress = <<>>
        /\ progress_callback =>
              /\ \A k \in 1..Len(progress) : progress[k] = <<k, Len(frames)>>
              /\ pc = "loop" => Len(progress) = i /\ Len(processed_frames) = i
              /\ pc = "callback" =>
                    Len(progress) = i /\ Len(processed_frames) = i + 1
              /\ pc = "returned" =>
                    /\ Len(progress) = Len(frames)
                    /\ Len(frames) >= 1 =>
                          {k \in 1..Len(progress) :
                              progress[k] = <<Len(frames), Len(frames)>>}
                          = {Len(frames)}

C3_Witness ==
    /\ progress_callback
    /\ pc = "returned"
    /\ progress = <<<<1, 3>>, <<2, 3>>, <<3, 3>>>>

(* C4, as stated: once a frame was handled with no source face set, the    *)
(* call has failed and hands no frame back.                                *)
C4_Original ==
    (source_face = None /\ InCall /\ HandledIndex >= 1) =>
        (pc = "raised" /\ processed_frames = <<>>)

(* C4, amended: with no source face set a frame is handed back as it came, *)
(* with no detector call and no error.                                     *)
C4_PassThroughWithoutSource ==
    (source_face = None /\ InCall) =>
        /\ pc # "raised" /\ error = "none"
        /\ detect_calls = 0
        /\ \A k \in 1..Len(processed_frames) :
              processed_frames[k] = InputFrame(k, frames[k])
        /\ pc = "returned" => Len(processed_frames) = Len(frames)

C4_Witness ==
    /\ source_face = None
    /\ pc = "returned"
    /\ Len(processed_frames) = 2

(* C5, as stated: a call on an empty list never returns a list. *)
C5_Original == ~(pc = "returned" /\ frames = <<>>)

(* C5, amended: on an empty list process_gif_frames calls neither the      *)
(* detector nor the callback and returns an empty list; it is the sink     *)
(* that rejects the empty list, with ValueError, and writes nothing.       *)
C5_EmptyListRejectedBySink ==
    /\ []((InCall /\ frames = <<>>) =>
            /\ detect_calls = 0
            /\ progress = <<>>
            /\ processed_frames = <<>>
            /\ pc \in {"loop", "returned"})
    /\ [][(pc = "returned" /\ sink' # "none") =>
            (sink' = "ValueError" <=> frames = <<>>)]_vars

C5_Witness == sink = "ValueError"

(* C6: a process_gif_frames call always completes: it never ends in an     *)
(* exception.                                                              *)
C6_AlwaysCompletes == pc # "raised" /\ error = "none"

(* A box is the argmax of the key with the ties going to the first one. *)
IsFirstLargest(list, k) ==
    /\ \A j \in 1..Len(list) : FaceKey(list[j]) <= FaceKey(list[k])
    /\ \A j \in 1..(k - 1) : FaceKey(list[j]) < FaceKey(list[k])

(* C7: set_source_face returns False when the detector finds nothing;      *)
(* otherwise it returns True and the source face is extracted from the     *)
(* first box of maximum area.                                              *)
C7_LargestFaceFirst ==
    /\ set_result = "False" => src_faces = <<>>
    /\ (set_result \in {"True", "False"} /\ src_faces = <<>>) => set_result = "False"
    /\ set_result = "True" =>
          \E k \in 1..Len(src_faces) :
             /\ IsFirstLargest(src_faces, k)
             /\ source_face = ExtractFace(src_image, src_faces[k], 4)

C7_Witness ==
    /\ set_result = "True"
    /\ Len(src_faces) = 2
    /\ FaceKey(src_faces[1]) = FaceKey(src_faces[2])
    /\ source_face = ExtractFace(src_image, src_faces[1], 4)

(* C8: compositing a box never raises, and a box that fails the bounds     *)
(* check is composited by the alpha-blend fallback.                        *)
C8_FallbackOutsideBounds ==
    /\ error # "cv2.error"
    /\ \A k \in 1..Len(frame_paths) :
          ~FitsForClone(frames[HandledIndex], frame_faces[k]) =>
              frame_paths[k] = "alpha"

(* The blend centre is within one pixel of an edge of the frame. *)
NearEdge(frame, face_location) ==
    LET cx == Left(face_location) + (Right(face_location) - Left(face_location)) \div 2
        cy == Top(face_location) + (Bottom(face_location) - Top(face_location)) \div 2
    IN  cx <= 1 \/ cx >= frame.w - 2 \/ cy <= 1 \/ cy >= frame.h - 2

(* C9: a box whose blend centre is within one pixel of a frame edge is     *)
(* composited by the alpha-blend fallback, without an exception, into a    *)
(* frame of the input's shape.                                             *)
C9_NearEdgeFallsBack ==
    /\ (error = "cv2.error") => ~NearEdge(frames[HandledIndex], error_box)
    /\ \A k \in 1..Len(frame_paths) :
          NearEdge(frames[HandledIndex], frame_faces[k]) =>
              /\ frame_paths[k] = "alpha"
              /\ error = "none" =>
                    /\ processed_frames[HandledIndex].h = frames[HandledIndex].h
                    /\ processed_frames[HandledIndex].w = frames[HandledIndex].w

-----------------------------------------------------------------------------
(* face_replacer.py: FaceReplacer._simple_blend, pixel by pixel            *)
(*                                                                         *)
(* An image is its shape and its pixels, px[y][x] with y and x from 0; one *)
(* colour channel is modelled, the three being blended alike.  The blend   *)
(* strength is given in tenths and the inputs keep to values for which the *)
(* floating point blend is exact (mask 0 or 255, strength 0, 0.5 or 1).    *)

BlendH == 2
BlendW == 3
MaxPatch == 2

Image(h, w, Pixel(_, _)) ==
    [h |-> h, w |-> w, px |-> [y \in 0..(h - 1) |-> [x \in 0..(w - 1) |-> Pixel(y, x)]]]

(* blended.astype(np.uint8) of face * m + frame * (1 - m), where           *)
(* m = mask / 255.0 * blend_strength                                       *)
BlendPixel(face_px, mask_px, frame_px, strength10) ==
    (face_px * mask_px * strength10 + frame_px * (255 * 10 - mask_px * strength10))
        \div (255 * 10)

SimpleBlendKeptAtOrigin(frame, face, mask, top, left, strength10) ==
    LET end_y == Min(top + face.h, frame.h)
        end_x == Min(left + face.w, frame.w)
        start_y == Max(0, top)
        start_x == Max(0, left)
    IN  IF end_y <= start_y \/ end_x <= start_x THEN frame
        ELSE [frame EXCEPT !.px =
                [y \in 0..(frame.h - 1) |-> [x \in 0..(frame.w - 1) |->
                    IF start_y <= y /\ y < end_y /\ start_x <= x /\ x < end_x
                    THEN BlendPixel(face.px[y - start_y][x - start_x],
                                    mask.px[y - start_y][x - start_x],
                                    frame.px[y][x], strength10)
                    ELSE frame.px[y][x]]]]

(* _simple_blend: result = frame.copy(), and the overlapping region of it  *)
(* is overwritten with the blend of the matching regions of face and mask. *)
SimpleBlend(frame, face, mask, top, left, strength10) ==
    LET h == face.h
        w == face.w
        frame_h == frame.h
        frame_w == frame.w
        end_y == Min(top + h, frame_h)
        end_x == Min(left + w, frame_w)
        start_y == Max(0, top)
        start_x == Max(0, left)
        face_start_y == start_y - top
        face_start_x == start_x - left
    IN  IF end_y <= start_y \/ end_x <= start_x THEN frame
        ELSE [frame EXCEPT !.px =
                [y \in 0..(frame_h - 1) |-> [x \in 0..(frame_w - 1) |->
                    IF start_y <= y /\ y < end_y /\ start_x <= x /\ x < end_x
                    THEN BlendPixel(face.px[face_start_y + (y - start_y)]
                                           [face_start_x + (x - start_x)],
                                    mask.px[face_start_y + (y - start_y)]
                                           [face_start_x + (x - start_x)],
                                    frame.px[y][x], strength10)
                    ELSE frame.px[y][x]]]]

(* cvRound of n / 10: to the nearest integer, a half going to the even one *)
RoundTenths(n) ==
    LET q == n \div 10
        r == n % 10
    IN  IF r < 5 THEN q
        ELSE IF r > 5 THEN q + 1
        ELSE IF q % 2 = 0 THEN q ELSE q + 1

AddWeightedSwapped(src1, alpha10, src2, beta10) ==
    [src1 EXCEPT !.px =
        [y \in 0..(src1.h - 1) |-> [x \in 0..(src1.w - 1) |->
            Min(255, Max(0, RoundTenths(src1.px[y][x] * beta10
                                        + src2.px[y][x] * alpha10)))]]]

(* cv2.addWeighted(src1, alpha, src2, beta, 0) on uint8 images, the        *)
(* weights in tenths: saturate_cast<uchar>(src1 * alpha + src2 * beta)     *)
AddWeighted(src1, alpha10, src2, beta10) ==
    [src1 EXCEPT !.px =
        [y \in 0..(src1.h - 1) |-> [x \in 0..(src1.w - 1) |->
            Min(255, Max(0, RoundTenths(src1.px[y][x] * alpha10
                                        + src2.px[y][x] * beta10)))]]]

(* The box that a patch of the face's size placed at (top, left) stands for *)
PatchBox(face, top, left) == <<top, left + face.w, top + face.h, left>>

(* What cv2.seamlessClone may return for a box that fits: an image of the  *)
(* frame's shape.  Two answers stand for it: the patch pasted over the box *)
(* and an image that differs from the frame in every pixel.                *)
CloneResults(frame, face, top, left) ==
    {[frame EXCEPT !.px =
         [y \in 0..(frame.h - 1) |-> [x \in 0..(frame.w - 1) |->
             IF top <= y /\ y < top + face.h /\ left <= x /\ x < left + face.w
             THEN face.px[y - top][x - left]
             ELSE frame.px[y][x]]]],
     [frame EXCEPT !.px =
         [y \in 0..(frame.h - 1) |-> [x \in 0..(frame.w - 1) |->
             255 - frame.px[y][x]]]]}

(* The gradient-domain path of _replace_single_face, after the clone:      *)
(* if blend_strength < 1.0 the clone is mixed with the frame.              *)
BlendWithOriginal(frame, cloned, strength10) ==
    IF strength10 < 10
    THEN AddWeighted(frame, 10 - strength10, cloned, strength10)
    ELSE cloned

(* The inputs of the calls that are checked *)
FramePixelA(y, x) == 10 * y + x
FramePixelB(y, x) == 90 - 7 * y - 2 * x
BlendFrames == {Image(BlendH, BlendW, FramePixelA), Image(BlendH, BlendW, FramePixelB)}

FacePixel(y, x) == 200 + 10 * y + x
MaskFull(y, x) == 255
MaskZero(y, x) == 0
MaskChecked(y, x) == IF (x + y) % 2 = 0 THEN 255 ELSE 0

MaskOf(kind, h, w) ==
    IF kind = "full" THEN Image(h, w, MaskFull)
    ELSE IF kind = "zero" THEN Image(h, w, MaskZero)
    ELSE Image(h, w, MaskChecked)

BlendCalls ==
    {[pc |-> "call", frame |-> f, face |-> Image(h, w, FacePixel),
      mask |-> MaskOf(m, h, w), top |-> t, left |-> l, strength10 |-> st] :
        f \in BlendFrames, h \in 1..MaxPatch, w \in 1..MaxPatch,
        m \in {"full", "zero", "checked"},
        t \in (0 - MaxPatch)..BlendH, l \in (0 - MaxPatch)..BlendW,
        st \in {0, 5, 10}}

InitBlend ==
    /\ variant = "basic"
    /\ source_face = None
    /\ source_landmarks = None
    /\ last_face_locations = <<>>
    /\ pc = "idle"
    /\ frames = <<>>
    /\ progress_callback = FALSE
    /\ processed_frames = <<>>
    /\ progress = <<>>
    /\ detect_calls = 0
    /\ detections = <<>>
    /\ seen = <<>>
    /\ error = "none"
    /\ error_box = <<>>
    /\ frame_faces = <<>>
    /\ frame_paths = <<>>
    /\ frame_reads = <<>>
    /\ sink = "none"
    /\ i = 0
    /\ set_result = "none"
    /\ src_image = None
    /\ src_faces = <<>>
    /\ blend \in BlendCalls
    /\ extract = ExtractOff
    /\ jobs = JobsOff

SimpleBlendCall ==
    /\ blend.pc = "call"
    /\ blend' = [pc |-> "done", frame |-> blend.frame, face |-> blend.face,
                 mask |-> blend.mask, top |-> blend.top, left |-> blend.left,
                 strength10 |-> blend.strength10,
                 result |-> SimpleBlend(blend.frame, blend.face, blend.mask,
                                        blend.top, blend.left, blend.strength10)]
    /\ UNCHANGED <<replacerVars, extract, jobs>>

(* _replace_single_face on a box that passes the bounds check, with a     *)
(* cv2.seamlessClone that returns (when it raises, _simple_blend is called *)
(* as above)                                                               *)
GradientBlendCall ==
    /\ blend.pc = "call"
    /\ FitsForClone(blend.frame, PatchBox(blend.face, blend.top, blend.left))
    /\ \E cloned \in CloneResults(blend.frame, blend.face, blend.top, blend.left) :
          blend' = [pc |-> "merged", frame |-> blend.frame, face |-> blend.face,
                    mask |-> blend.mask, top |-> blend.top, left |-> blend.left,
                    strength10 |-> blend.strength10, cloned |-> cloned,
                    result |-> BlendWithOriginal(blend.frame, cloned,
                                                 blend.strength10)]
    /\ UNCHANGED <<replacerVars, extract, jobs>>

NextBlend == SimpleBlendCall \/ GradientBlendCall

SpecBlend == InitBlend /\ [][NextBlend]_vars

(* The frame pixels under the patch placed with its corner at (top, left) *)
UnderPatch(y, x) ==
    /\ blend.top <= y /\ y < blend.top + blend.face.h
    /\ blend.left <= x /\ x < blend.left + blend.face.w

(* C10: _simple_blend changes only the frame pixels under the patch placed *)
(* at (top, left), each from the patch and mask pixel at the same offset   *)
(* from (top, left); every other pixel, the shape and, when no pixel is    *)
(* under the patch, the whole frame are as in the input.                   *)
C10_BlendOnlyTheOverlap ==
    blend.pc = "done" =>
        /\ blend.result.h = blend.frame.h
        /\ blend.result.w = blend.frame.w
        /\ DOMAIN blend.result.px = 0..(blend.frame.h - 1)
        /\ \A y \in 0..(blend.frame.h - 1) :
              /\ DOMAIN blend.result.px[y] = 0..(blend.frame.w - 1)
              /\ \A x \in 0..(blend.frame.w - 1) :
                    blend.result.px[y][x] =
                        IF UnderPatch(y, x)
                        THEN BlendPixel(blend.face.px[y - blend.top][x - blend.left],
                                        blend.mask.px[y - blend.top][x - blend.left],
                                        blend.frame.px[y][x], blend.strength10)
                        ELSE blend.frame.px[y][x]
        /\ (\A y \in 0..(blend.frame.h - 1), x \in 0..(blend.frame.w - 1) :
               ~UnderPatch(y, x)) => blend.result = blend.frame

(* A patch that sticks out above and to the right of the frame and was     *)
(* blended into it                                                         *)
C10_Witness ==
    /\ blend.pc = "done"
    /\ blend.top < 0
    /\ blend.left + blend.face.w > blend.frame.w
    /\ blend.result # blend.frame

(* C11: with blend_strength = 0.0 the composited frame equals the input    *)
(* frame at every pixel of the box, whether the box went through the       *)
(* gradient-domain path or through the alpha-blend fallback.               *)
C11_ZeroStrengthKeepsFrame ==
    (blend.pc \in {"done", "merged"} /\ blend.strength10 = 0) =>
        /\ blend.result.h = blend.frame.h
        /\ blend.result.w = blend.frame.w
        /\ \A y \in 0..(blend.frame.h - 1), x \in 0..(blend.frame.w - 1) :
              UnderPatch(y, x) => blend.result.px[y][x] = blend.frame.px[y][x]

(* A clone that differs from the frame inside the box, mixed in with       *)
(* strength 0                                                              *)
C11_Witness ==
    /\ blend.pc = "merged"
    /\ blend.strength10 = 0
    /\ \E y \in 0..(blend.frame.h - 1), x \in 0..(blend.frame.w - 1) :
          UnderPatch(y, x) /\ blend.cloned.px[y][x] # blend.frame.px[y][x]
    /\ blend.result = blend.frame

-----------------------------------------------------------------------------
(* face_detector.py: FaceDetector.extract_face on its own, for every box   *)
(* within an image of up to MaxImage rows and columns and for the padding  *)
(* ratios 0, 0.4 (the one set_source_face passes), 1.0 and 1.5; for these  *)
(* sizes the floating point product face_height * padding has the floor of *)
(* the exact product.                                                      *)

MaxImage == 4

Paddings10 == {0, 4, 10, 15}

(* The replacer and its caller at rest, while another part is exercised *)
ReplacerAtRest ==
    /\ variant = "basic"
    /\ source_face = None
    /\ source_landmarks = None
    /\ last_face_locations = <<>>
    /\ pc = "idle"
    /\ frames = <<>>
    /\ progress_callback = FALSE
    /\ processed_frames = <<>>
    /\ progress = <<>>
    /\ detect_calls = 0
    /\ detections = <<>>
    /\ seen = <<>>
    /\ error = "none"
    /\ error_box = <<>>
    /\ frame_faces = <<>>
    /\ frame_paths = <<>>
    /\ frame_reads = <<>>
    /\ sink = "none"
    /\ i = 0
    /\ set_result = "none"
    /\ src_image = None
    /\ src_faces = <<>>

ExtractCalls ==
    {[pc |-> "call", image |-> [h |-> h, w |-> w],
      face_location |-> <<t, r, b, l>>, padding10 |-> p] :
        h \in 1..MaxImage, w \in 1..MaxImage,
        t \in 0..MaxImage, r \in 0..MaxImage, b \in 0..MaxImage,
        l \in 0..MaxImage, p \in Paddings10}

InitExtract ==
    /\ ReplacerAtRest
    /\ blend = BlendOff
    /\ jobs = JobsOff
    /\ extract \in {c \in ExtractCalls : InFrame(c.face_location, c.image)}

ExtractFaceCall ==
    /\ extract.pc = "call"
    /\ extract' = [pc |-> "done", image |-> extract.image,
                   face_location |-> extract.face_location,
                   padding10 |-> extract.padding10,
                   result |-> ExtractFace(extract.image, extract.face_location,
                                          extract.padding10)]
    /\ UNCHANGED <<replacerVars, blend, jobs>>

NextExtract == ExtractFaceCall

SpecExtract == InitExtract /\ [][NextExtract]_vars

(* C14: for a box within the image, the padded location returned by        *)
(* extract_face lies within the image and contains the box, each side is   *)
(* moved out by int(padding * box_dimension) or, when that would leave the *)
(* image, to the image border, and the face image has the padded           *)
(* location's height and width.                                            *)
C14_PaddedWithinImage ==
    extract.pc = "done" =>
        LET top == Top(extract.face_location)
            right == Right(extract.face_location)
            bottom == Bottom(extract.face_location)
            left == Left(extract.face_location)
            height == extract.image.h
            width == extract.image.w
            pad_h == ((bottom - top) * extract.padding10) \div 10
            pad_w == ((right - left) * extract.padding10) \div 10
            new_top == Top(extract.result.loc)
            new_right == Right(extract.result.loc)
            new_bottom == Bottom(extract.result.loc)
            new_left == Left(extract.result.loc)
        IN  /\ 0 <= new_top /\ new_top <= top
            /\ bottom <= new_bottom /\ new_bottom <= height
            /\ 0 <= new_left /\ new_left <= left
            /\ right <= new_right /\ new_right <= width
            /\ new_top = top - pad_h \/ (new_top = 0 /\ top - pad_h < 0)
            /\ new_bottom = bottom + pad_h
                  \/ (new_bottom = height /\ bottom + pad_h > height)
            /\ new_left = left - pad_w \/ (new_left = 0 /\ left - pad_w < 0)
            /\ new_right = right + pad_w
                  \/ (new_right = width /\ right + pad_w > width)
            /\ extract.result.face =
                  [h |-> new_bottom - new_top, w |-> new_right - new_left]

(* A box padded by a full pixel below and clamped at the top border *)
C14_Witness ==
    /\ extract.pc = "done"
    /\ extract.padding10 = 15
    /\ extract.face_location = <<1, 3, 2, 2>>
    /\ extract.image = [h |-> 4, w |-> 4]
    /\ extract.result.loc = <<0, 4, 3, 1>>

-----------------------------------------------------------------------------
(* main.py: the replace_faces requests, their job directories and results, *)
(* and get_job_status.  Each request has its own job id (a fresh uuid4)    *)
(* and its own replacer; requests interleave at their awaits.  What the    *)
(* replacer and the GIF processing do inside a request is reduced here to  *)
(* how the step ends: it returns, or it raises one of the exception kinds  *)
(* that the handlers of replace_faces tell apart.                          *)

MaxJobs == 2

JobIds == 1..MaxJobs

(* A request not made yet: no directory uploads/<job_id>, no output file *)
NoRequest ==
    [pc |-> "new", temp_dir |-> FALSE, output |-> FALSE, code |-> 0,
     dir_task |-> FALSE, file_task |-> FALSE]

NoReport == [job |-> 0, status |-> "none", running |-> FALSE]

Running == {"face", "gif", "source", "process", "respond"}

(* The except clauses of replace_faces: an HTTPException is re-raised, an  *)
(* httpx.HTTPError becomes HTTPException(400), and any other exception     *)
(* removes temp_dir and becomes HTTPException(500).                        *)
OnError(req, kind) ==
    IF kind = "HTTPException"
    THEN [req EXCEPT !.pc = "failed", !.code = 400]
    ELSE IF kind = "HTTPError"
    THEN [req EXCEPT !.pc = "failed", !.code = 400]
    ELSE [req EXCEPT !.pc = "failed", !.code = 500, !.temp_dir = FALSE]

(* How fetching one input ends: an upload is written, a download succeeds  *)
(* or fails, a write fails, or neither a file nor a URL was given.         *)
InputOutcomes == {"ok", "HTTPError", "Exception", "HTTPException"}

InitJobs ==
    /\ ReplacerAtRest
    /\ blend = BlendOff
    /\ extract = ExtractOff
    /\ jobs = [requests |-> [j \in JobIds |-> NoRequest], report |-> NoReport]

SetRequest(j, req) ==
    /\ jobs' = [jobs EXCEPT !.requests[j] = req]
    /\ UNCHANGED <<replacerVars, blend, extract>>

(* job_id = str(uuid.uuid4()); temp_dir.mkdir(exist_ok=True) *)
StartRequest(j) ==
    /\ jobs.requests[j].pc = "new"
    /\ SetRequest(j, [jobs.requests[j] EXCEPT !.pc = "face", !.temp_dir = TRUE])

(* Get face image *)
GetFaceImage(j) ==
    /\ jobs.requests[j].pc = "face"
    /\ \E outcome \in InputOutcomes :
          SetRequest(j, IF outcome = "ok"
                        THEN [jobs.requests[j] EXCEPT !.pc = "gif"]
                        ELSE OnError(jobs.requests[j], outcome))

(* Get GIF *)
GetGif(j) ==
    /\ jobs.requests[j].pc = "gif"
    /\ \E outcome \in InputOutcomes :
          SetRequest(j, IF outcome = "ok"
                        THEN [jobs.requests[j] EXCEPT !.pc = "source"]
                        ELSE OnError(jobs.requests[j], outcome))

(* load_image and replacer.set_source_face: True, False (HTTPException     *)
(* 400) or an exception of the image loader or the detector                *)
LoadSourceFace(j) ==
    /\ jobs.requests[j].pc = "source"
    /\ \E outcome \in {"True", "False", "Exception"} :
          SetRequest(j, IF outcome = "True"
                        THEN [jobs.requests[j] EXCEPT !.pc = "process"]
                        ELSE IF outcome = "False"
                        THEN OnError(jobs.requests[j], "HTTPException")
                        ELSE OnError(jobs.requests[j], "Exception"))

(* Process GIF: frames are extracted, processed and assembled into         *)
(* outputs/<job_id>_output.gif, or one of these steps raises               *)
ProcessGif(j) ==
    /\ jobs.requests[j].pc = "process"
    /\ \E ok \in BOOLEAN :
          SetRequest(j, IF ok
                        THEN [jobs.requests[j] EXCEPT !.pc = "respond",
                                                      !.output = TRUE]
                        ELSE OnError(jobs.requests[j], "Exception"))

(* background_tasks.add_task(cleanup_directory, temp_dir) and the          *)
(* FileResponse with its own background cleanup_file(output_path)          *)
ReturnResponse(j) ==
    /\ jobs.requests[j].pc = "respond"
    /\ SetRequest(j, [jobs.requests[j] EXCEPT !.pc = "done", !.code = 200,
                                               !.dir_task = TRUE,
                                               !.file_task = TRUE])

(* cleanup_directory, run after the response *)
CleanupDirectory(j) ==
    /\ jobs.requests[j].dir_task
    /\ SetRequest(j, [jobs.requests[j] EXCEPT !.dir_task = FALSE,
                                               !.temp_dir = FALSE])

(* cleanup_file, run after the file was sent *)
CleanupFile(j) ==
    /\ jobs.requests[j].file_task
    /\ SetRequest(j, [jobs.requests[j] EXCEPT !.file_task = FALSE,
                                               !.output = FALSE])

(* get_job_status *)
JobStatus(req) ==
    IF req.output THEN "completed"
    ELSE IF req.temp_dir THEN "processing"
    ELSE "not_found"

(* A client asks for the status of a job; the answer is kept, with whether *)
(* the job's request was running when it was given.                        *)
GetJobStatus(j) ==
    /\ jobs' = [jobs EXCEPT !.report =
                   [job |-> j, status |-> JobStatus(jobs.requests[j]),
                    running |-> jobs.requests[j].pc \in Running]]
    /\ UNCHANGED <<replacerVars, blend, extract>>

NextJobs ==
    \E j \in JobIds :
       \/ StartRequest(j)
       \/ GetFaceImage(j)
       \/ GetGif(j)
       \/ LoadSourceFace(j)
       \/ ProcessGif(j)
       \/ ReturnResponse(j)
       \/ CleanupDirectory(j)
       \/ CleanupFile(j)
       \/ GetJobStatus(j)

SpecJobs == InitJobs /\ [][NextJobs]_vars

(* C18: a request that ended in an error has removed its job directory,    *)
(* and get_job_status answers "processing" only for a job whose request is *)
(* running.                                                                *)
C18_FailedJobsCleanedUp ==
    /\ \A j \in JobIds :
          jobs.requests[j].pc = "failed" => ~jobs.requests[j].temp_dir
    /\ jobs.report.status = "processing" => jobs.report.running

-----------------------------------------------------------------------------
(* Properties of the replacer, continued *)

(* C12: every box that a blend of the frame handled last used for pixel    *)
(* access, remembered boxes included, lies within that frame:              *)
(* 0 <= top < bottom <= height and 0 <= left < right <= width.             *)
C12_BoxesWithinFrame ==
    \A k \in 1..Len(frame_reads) :
        InFrame(frame_faces[k], frames[HandledIndex])

(* C13: last_face_locations of the advanced variant is the detector's most *)
(* recent non-empty answer, or empty when there was none yet, and a frame  *)
(* with an empty detection leaves it as it was.                            *)
C13_LastKnownLocations ==
    /\ [](variant = "advanced" => last_face_locations = seen)
    /\ [][(DetectorAnswered /\ detections'[Len(detections')] = <<>>) =>
            last_face_locations' = last_face_locations]_vars

C13_Witness ==
    /\ variant = "advanced"
    /\ detections = <<<<BoxInside>>, <<BoxCorner>>, <<>>>>
    /\ last_face_locations = <<BoxCorner>>

(* C15: the boxes of a frame are composited in list order, the blend of    *)
(* box k reading the frame that holds exactly the composites of the boxes  *)
(* before it, and the output holding them all; the input list is not       *)
(* touched.                                                                *)
C15_BoxesInListOrder ==
    /\ [](/\ Len(frame_reads) <= Len(frame_faces)
          /\ \A k \in 1..Len(frame_reads) :
                frame_reads[k] = SubSeq(frame_faces, 1, k - 1)
          /\ (InCall /\ HandledIndex >= 1 /\ error = "none") =>
                /\ Len(frame_reads) = Len(frame_faces)
                /\ processed_frames[HandledIndex].layers = frame_faces)
    /\ [][(InCall /\ pc' # "idle") => frames' = frames]_vars

C15_Witness ==
    /\ error = "none"
    /\ frame_faces = <<BoxCorner, BoxInside>>
    /\ frame_reads = <<<<>>, <<BoxCorner>>>>
    /\ processed_frames[HandledIndex].layers = <<BoxCorner, BoxInside>>

(* C16: the remembered locations are empty after a successful              *)
(* set_source_face, and the first frame of a process_gif_frames call, when *)
(* nothing is detected on it, is passed through unmodified.                *)
C16_StartsEmpty ==
    /\ set_result = "True" => last_face_locations = <<>>
    /\ (variant = "advanced" /\ InCall /\ HandledIndex = 1
            /\ detections = <<<<>>>>) =>
          /\ frame_faces = <<>>
          /\ error = "none" => processed_frames[1] = InputFrame(1, frames[1])

(* C17: a set_source_face call that returns False leaves source_face,      *)
(* source_landmarks and last_face_locations as they were.                  *)
C17_FailedSetKeepsState ==
    [][(pc = "idle" /\ pc' = "idle" /\ set_result' = "False") =>
          UNCHANGED <<source_face, source_landmarks, last_face_locations>>]_vars

(* A failed call on a replacer that holds a source face and remembered     *)
(* locations                                                               *)
C17_Witness ==
    /\ set_result = "False"
    /\ source_face # None
    /\ last_face_locations # <<>>

====
